---- MODULE Spec2Model ----
(***************************************************************************)
(* FullNodeStore (src/full_node/full_node_store.py): the slot ring         *)
(* finished_sub_slots, the deferred end-of-sub-slot cache future_eos_cache *)
(* and the operations new_finished_sub_slot, new_signage_point, new_peak   *)
(* and clear_slots.                                                        *)
(*                                                                         *)
(* Hashes are natural numbers.  get_hash() of a chain object is an         *)
(* injective encoding of the object's fields, so two objects hash alike    *)
(* only when they are equal, and an object never holds its own hash.       *)
(* An Optional value is a sequence of length 0 (None) or 1.                *)
(* A handler that raises leaves `last.exc` non-empty; `last.line` is the   *)
(* source line of the return or raise statement that ended the call.       *)
(***************************************************************************)
EXTENDS Integers, Sequences, FiniteSets, TLC

\* ---------------------------------------------------------------- bounds
\* total_iters handed to new_peak ranges over 0..MaxSeedIters, and
\* prev_sub_slot_total_iters over 0..MaxSeedIters-1
MaxSeedIters == 1
\* peak.total_iters ranges over 0..MaxPeakIters
MaxPeakIters == 1
\* at most MaxDeferred bundles are deferred in future_eos_cache
MaxDeferred == 1
\* at most this many items in future_ip_cache, and in future_sb_cache
MaxFutureItems == 2

\* ------------------------------------------------------- program constants
MIN_SUB_BLOCKS_PER_CHALLENGE_BLOCK == 1
NUM_CHECKPOINTS_PER_SLOT == 4

\* ------------------------------------------------------------ value ranges
\* challenge hashes a challenge-chain VDF may name (0: the hash of no bundle)
CcChallenges == {0, 1, 3, 4}
\* challenge hashes a reward-chain VDF or a peak's infusion may name
RcChallenges == {0, 1, 2}
\* challenge hashes an infused-challenge-chain VDF may name
IccChallenges == {0, 1}
\* number_of_iterations of an end-of-slot VDF
Iterations == {0, 1}
Deficits == {MIN_SUB_BLOCKS_PER_CHALLENGE_BLOCK - 1, MIN_SUB_BLOCKS_PER_CHALLENGE_BLOCK}

\* ------------------------------------------------------------------ types
ChallengeChainSubSlot == [challenge_hash : CcChallenges, number_of_iterations : Iterations]

RewardChainSubSlot ==
    [challenge_hash : RcChallenges, number_of_iterations : Iterations, deficit : Deficits]

InfusedChallengeChainSubSlot == [challenge_hash : IccChallenges]

\* proofs: each flag is the value of proof.is_valid(constants, vdf) for the
\* bundle's own VDF; a bundle without infused challenge chain has no such proof
SubSlotProofs ==
    [challenge_chain_slot_proof : BOOLEAN, reward_chain_slot_proof : BOOLEAN,
     infused_challenge_chain_slot_proof : BOOLEAN]

EndOfSubSlotBundle ==
    { e \in [challenge_chain : ChallengeChainSubSlot,
             reward_chain : RewardChainSubSlot,
             infused_challenge_chain : {<<>>} \cup {<<i>> : i \in InfusedChallengeChainSubSlot},
             proofs : SubSlotProofs] :
        e.infused_challenge_chain = <<>> => e.proofs.infused_challenge_chain_slot_proof }

\* ChallengeChainSubSlot.get_hash()
HashCC(cc) == 1 + cc.challenge_hash * 2 + (1 - cc.number_of_iterations)

\* RewardChainSubSlot.get_hash()
HashRC(rc) ==
    1 + (rc.challenge_hash * 2 + rc.number_of_iterations) * 2
      + (rc.deficit - (MIN_SUB_BLOCKS_PER_CHALLENGE_BLOCK - 1))

\* InfusedChallengeChainSubSlot.get_hash()
HashICC(icc) == 1 + icc.challenge_hash

\* ------------------------------------------------------ sub-block records
\* SubBlockRecord, the fields the store reads.  is_challenge_sub_block is the
\* value of the record's is_challenge_sub_block(constants) predicate.
\* finished_infused_challenge_slot_hashes is the list itself (<<>>: no hash).
SubBlockRecord ==
    [total_iters : 0 .. MaxPeakIters,
     reward_infusion_new_challenge : RcChallenges,
     deficit : Deficits,
     first_in_sub_slot : BOOLEAN,
     is_challenge_sub_block : BOOLEAN,
     prev_hash : {0, 1, 2},
     challenge_block_info_hash : IccChallenges,
     finished_infused_challenge_slot_hashes : {<<>>} \cup {<<h>> : h \in IccChallenges},
     finished_challenge_slot_hashes : {<<>>} \cup {<<h>> : h \in CcChallenges}]

\* the validator's map of sub-block records: header hash 1 is a challenge
\* sub-block, header hash 2 the first sub-block of a sub-slot; hash 0 is unknown
sub_block_records ==
    (1 :> [total_iters |-> 0, reward_infusion_new_challenge |-> 0, deficit |-> 0,
           first_in_sub_slot |-> FALSE, is_challenge_sub_block |-> TRUE, prev_hash |-> 0,
           challenge_block_info_hash |-> 1,
           finished_infused_challenge_slot_hashes |-> <<>>,
           finished_challenge_slot_hashes |-> <<>>])
    @@
    (2 :> [total_iters |-> 0, reward_infusion_new_challenge |-> 0, deficit |-> 0,
           first_in_sub_slot |-> TRUE, is_challenge_sub_block |-> FALSE, prev_hash |-> 0,
           challenge_block_info_hash |-> 0,
           finished_infused_challenge_slot_hashes |-> <<1>>,
           finished_challenge_slot_hashes |-> <<1>>])

\* the peaks handed to the store.  A peak whose deficit reaches the minimum
\* takes every total_iters and every infusion challenge; the ancestor walk of
\* lines 198-205 reads the other fields only when the deficit is below the
\* minimum, and those peaks are: a challenge sub-block, the first sub-block of
\* a sub-slot without finished infused slots, and a sub-block whose parent is
\* the challenge sub-block 1 or is unknown
Peaks ==
    { p \in SubBlockRecord :
      /\ p.finished_challenge_slot_hashes = <<>>
      /\
        \/ /\ p.deficit >= MIN_SUB_BLOCKS_PER_CHALLENGE_BLOCK
           /\ ~p.is_challenge_sub_block /\ p.first_in_sub_slot /\ p.prev_hash = 0
           /\ p.challenge_block_info_hash = 0
           /\ p.finished_infused_challenge_slot_hashes = <<>>
           /\ p.reward_infusion_new_challenge # 0
        \/ /\ p.deficit < MIN_SUB_BLOCKS_PER_CHALLENGE_BLOCK
           /\ p.total_iters = 1 /\ p.reward_infusion_new_challenge = 1
           /\ p.finished_infused_challenge_slot_hashes = <<>>
           /\ \/ /\ p.is_challenge_sub_block /\ ~p.first_in_sub_slot
                 /\ p.prev_hash = 0 /\ p.challenge_block_info_hash = 1
              \/ /\ ~p.is_challenge_sub_block /\ p.first_in_sub_slot
                 /\ p.prev_hash = 0 /\ p.challenge_block_info_hash = 0
              \/ /\ ~p.is_challenge_sub_block /\ ~p.first_in_sub_slot
                 /\ p.prev_hash \in {0, 1} /\ p.challenge_block_info_hash = 0 }

\* ------------------------------------------------------------------ state
VARIABLES
    finished_sub_slots,   \* the slot ring: <<[eos, sps, total_iters]>>
    future_eos_cache,     \* reward-chain challenge hash -> list of deferred bundles
    last,                 \* how the last call ended: [op, reorg, line, exc, ret]
    second_finished_sub_slots,  \* the slot ring of a second store created side by side
    seen_unfinished_blocks,     \* the set of temporary header hashes seen
    called,               \* history: the hashes seen_unfinished_block was called with
                          \* since creation or the last clear_seen_unfinished_blocks
    future_ip_cache,      \* reward-chain challenge hash -> list of infusion point VDFs
    future_sb_cache,      \* reward-chain challenge hash -> list of sub-blocks
    unfinished_blocks,    \* dict, in insertion order: <<[key, value]>>
    candidate_blocks,     \* dict, in insertion order: <<[key, value]>>
    disconnected_blocks   \* dict, in insertion order: <<[key, value]>>

\* the tables new_finished_sub_slot, new_peak and the ring's queries never touch
blocks == <<unfinished_blocks, candidate_blocks, disconnected_blocks>>

tables == <<second_finished_sub_slots, seen_unfinished_blocks, called,
            future_ip_cache, future_sb_cache, blocks>>

vars == <<finished_sub_slots, future_eos_cache, last, tables>>

EntryIterationsOnly(eos, total_iters) ==
    [eos |-> eos, sps |-> <<>>, total_iters |-> eos.challenge_chain.number_of_iterations]

\* a ring entry (eos, {}, total_iters): the signage-point dict starts empty
Entry(eos, total_iters) == [eos |-> eos, sps |-> <<>>, total_iters |-> total_iters]

\* what a handler leaves behind
Outcome(ring, cache, ret, exc, line) ==
    [finished_sub_slots |-> ring, future_eos_cache |-> cache,
     ret |-> ret, exc |-> exc, line |-> line]

\* the walk of lines 198-200: None stands for the KeyError of sub_blocks[...]
RECURSIVE WalkBack(_, _)
WalkBack(curr, sub_blocks) ==
    IF curr.first_in_sub_slot \/ curr.is_challenge_sub_block THEN <<curr>>
    ELSE IF curr.prev_hash \in DOMAIN sub_blocks
         THEN WalkBack(sub_blocks[curr.prev_hash], sub_blocks)
         ELSE <<>>

\* ------------------------------------------------- new_finished_sub_slot
\* lines 197-211, the peak lies in the new slot and its deficit is below the
\* minimum: walk back to the challenge start and compare the bundle's infused
\* challenge chain with it.  Reached with ring and cache as they were.
CheckInfusedStart(ring, cache, eos, sub_blocks, peak, total_iters) ==
    LET walk == WalkBack(peak, sub_blocks) IN
    IF walk = <<>> THEN Outcome(ring, cache, FALSE, "KeyError", 200)
    ELSE LET curr == walk[1] IN
         IF ~curr.is_challenge_sub_block
               /\ curr.finished_infused_challenge_slot_hashes = <<>>
         THEN Outcome(ring, cache, FALSE, "IndexError", 205)
         ELSE LET icc_start_challenge_hash ==
                      IF curr.is_challenge_sub_block
                      THEN curr.challenge_block_info_hash
                      ELSE curr.finished_infused_challenge_slot_hashes[
                               Len(curr.finished_infused_challenge_slot_hashes)]
              IN  IF eos.infused_challenge_chain = <<>>
                  THEN Outcome(ring, cache, FALSE, "AttributeError", 208)
                  ELSE IF eos.infused_challenge_chain[1].challenge_hash
                              # icc_start_challenge_hash
                       THEN Outcome(ring, cache, FALSE, "", 211)
                       ELSE Outcome(Append(ring, Entry(eos, total_iters)), cache,
                                    TRUE, "", 226)

PeakInSlotDeferUnderPeakKey(ring, cache, eos, sub_blocks, peak, total_iters) ==
    LET rc_challenge == eos.reward_chain.challenge_hash
        key == peak.reward_infusion_new_challenge
    IN
    IF key # rc_challenge
    THEN Outcome(ring, [cache EXCEPT ![key] = Append(cache[key], eos)], FALSE, "", 193)
    ELSE IF peak.total_iters + eos.reward_chain.number_of_iterations # total_iters
         THEN Outcome(ring, cache, FALSE, "", 195)
         ELSE IF peak.deficit < MIN_SUB_BLOCKS_PER_CHALLENGE_BLOCK
              THEN CheckInfusedStart(ring, cache, eos, sub_blocks, peak, total_iters)
              ELSE Outcome(Append(ring, Entry(eos, total_iters)), cache, TRUE, "", 226)

PeakInSlotSkipItersCheck(ring, cache, eos, sub_blocks, peak, total_iters) ==
    LET rc_challenge == eos.reward_chain.challenge_hash IN
    IF peak.reward_infusion_new_challenge # rc_challenge
    THEN Outcome(ring,
                 [cache EXCEPT ![rc_challenge] = Append(cache[rc_challenge], eos)],
                 FALSE, "", 193)
    ELSE IF peak.deficit < MIN_SUB_BLOCKS_PER_CHALLENGE_BLOCK
         THEN CheckInfusedStart(ring, cache, eos, sub_blocks, peak, total_iters)
         ELSE Outcome(Append(ring, Entry(eos, total_iters)), cache, TRUE, "", 226)

\* lines 185-211, the peak lies in the new slot
PeakInSlot(ring, cache, eos, sub_blocks, peak, total_iters) ==
    LET rc_challenge == eos.reward_chain.challenge_hash IN
    IF peak.reward_infusion_new_challenge # rc_challenge
    THEN Outcome(ring,
                 [cache EXCEPT ![rc_challenge] = Append(cache[rc_challenge], eos)],
                 FALSE, "", 193)
    ELSE IF peak.total_iters + eos.reward_chain.number_of_iterations # total_iters
         THEN Outcome(ring, cache, FALSE, "", 195)
         ELSE IF peak.deficit < MIN_SUB_BLOCKS_PER_CHALLENGE_BLOCK
              THEN CheckInfusedStart(ring, cache, eos, sub_blocks, peak, total_iters)
              ELSE Outcome(Append(ring, Entry(eos, total_iters)), cache, TRUE, "", 226)

\* lines 212-223, an empty slot after the peak
EmptySlot(ring, cache, eos, last_slot, total_iters) ==
    IF eos.reward_chain.challenge_hash # HashRC(last_slot.reward_chain)
    THEN Outcome(ring, cache, FALSE, "", 215)
    ELSE IF last_slot.reward_chain.deficit < MIN_SUB_BLOCKS_PER_CHALLENGE_BLOCK
         THEN IF eos.infused_challenge_chain = <<>> \/ last_slot.infused_challenge_chain = <<>>
              THEN Outcome(ring, cache, FALSE, "AttributeError", 220)
              ELSE IF eos.infused_challenge_chain[1].challenge_hash
                          # HashICC(last_slot.infused_challenge_chain[1])
                   THEN Outcome(ring, cache, FALSE, "", 223)
                   ELSE Outcome(Append(ring, Entry(eos, total_iters)), cache, TRUE, "", 226)
         ELSE Outcome(Append(ring, Entry(eos, total_iters)), cache, TRUE, "", 226)

ProofsValidSkipInfused(eos) ==
    /\ eos.proofs.challenge_chain_slot_proof
    /\ eos.proofs.reward_chain_slot_proof

\* lines 171-181: the slot proofs
ProofsValid(eos) ==
    /\ eos.proofs.challenge_chain_slot_proof
    /\ eos.proofs.reward_chain_slot_proof
    /\ (eos.infused_challenge_chain # <<>> => eos.proofs.infused_challenge_chain_slot_proof)

\* the source line at which an invalid proof is rejected
ProofLine(eos) ==
    IF ~eos.proofs.challenge_chain_slot_proof THEN 174
    ELSE IF ~eos.proofs.reward_chain_slot_proof THEN 176 ELSE 181

ChainsFromAnySlot(eos, last_slot) == TRUE

\* line 166: the bundle chains from the last slot of the ring
ChainsFrom(eos, last_slot) ==
    eos.challenge_chain.challenge_hash = HashCC(last_slot.challenge_chain)

EmptyRingAccepts(ring, cache, eos) ==
    Outcome(Append(ring, Entry(eos, eos.challenge_chain.number_of_iterations)), cache,
            TRUE, "", 162)

\* lines 161-162: nothing is accepted before a peak has seeded the ring
EmptyRing(ring, cache, eos) == Outcome(ring, cache, FALSE, "", 162)

\* new_finished_sub_slot(eos, sub_blocks, peak) as a function of the store
NewFinishedSubSlot(ring, cache, eos, sub_blocks, peak) ==
    IF Len(ring) = 0 THEN EmptyRing(ring, cache, eos)
    ELSE LET last_slot == ring[Len(ring)].eos
             last_slot_iters == ring[Len(ring)].total_iters
             total_iters == last_slot_iters + eos.challenge_chain.number_of_iterations
         IN  IF ~ChainsFrom(eos, last_slot) THEN Outcome(ring, cache, FALSE, "", 169)
             ELSE IF ~ProofsValid(eos) THEN Outcome(ring, cache, FALSE, "", ProofLine(eos))
             ELSE IF peak.total_iters > last_slot_iters
                  THEN PeakInSlot(ring, cache, eos, sub_blocks, peak, total_iters)
                  ELSE EmptySlot(ring, cache, eos, last_slot, total_iters)

\* ---------------------------------------------------------------- new_peak
\* lines 315-318: replay the bundles deferred under the peak's infusion
\* challenge, from the i-th on, stopping at the first one accepted
ReplayWithoutHint(ring, cache, peak, sub_blocks, i) ==
    LET deferred == cache[peak.reward_infusion_new_challenge] IN
    IF i > Len(deferred) THEN Outcome(ring, cache, <<>>, "", 318)
    ELSE LET r == NewFinishedSubSlot(ring, cache, deferred[i], sub_blocks, peak) IN
         Outcome(r.finished_sub_slots, r.future_eos_cache, <<>>, r.exc,
                 IF r.exc = "" THEN 318 ELSE r.line)

RECURSIVE Replay(_, _, _, _, _)
Replay(ring, cache, peak, sub_blocks, i) ==
    LET deferred == cache[peak.reward_infusion_new_challenge] IN
    IF i > Len(deferred) THEN Outcome(ring, cache, <<>>, "", 318)
    ELSE LET r == NewFinishedSubSlot(ring, cache, deferred[i], sub_blocks, peak) IN
         IF r.exc # ""
         THEN Outcome(r.finished_sub_slots, r.future_eos_cache, <<>>, r.exc, r.line)
         ELSE IF r.ret
              THEN Outcome(r.finished_sub_slots, r.future_eos_cache, <<deferred[i]>>, "", 317)
              ELSE Replay(r.finished_sub_slots, r.future_eos_cache, peak, sub_blocks, i + 1)

SeededWithoutPrev(peak_sub_slot, total_iters, prev_sub_slot, prev_sub_slot_total_iters) ==
    <<Entry(peak_sub_slot, total_iters)>>

\* lines 309-313: the ring is cleared and seeded
Seeded(peak_sub_slot, total_iters, prev_sub_slot, prev_sub_slot_total_iters) ==
    (IF prev_sub_slot # <<>>
     THEN <<Entry(prev_sub_slot[1], prev_sub_slot_total_iters[1])>>
     ELSE <<>>)
    \o <<Entry(peak_sub_slot, total_iters)>>

\* new_peak(...) as a function of the store.  With reorg false the loop of
\* line 295 unpacks each ring entry, a triple, into four names: on a ring
\* that is not empty the first iteration raises ValueError before anything
\* is changed, and lines 296-305 are never reached.
NewPeak(ring, cache, peak, peak_sub_slot, total_iters, prev_sub_slot, prev_sub_slot_total_iters, reorg, sub_blocks) ==
    IF ~reorg /\ Len(ring) > 0 THEN Outcome(ring, cache, <<>>, "ValueError", 295)
    ELSE IF prev_sub_slot # <<>> /\ prev_sub_slot_total_iters = <<>>
         THEN Outcome(<<>>, cache, <<>>, "AssertionError", 311)
         ELSE Replay(Seeded(peak_sub_slot, total_iters, prev_sub_slot,
                            prev_sub_slot_total_iters),
                     cache, peak, sub_blocks, 1)

\* ------------------------------------------------------- new_signage_point
\* a VDFInfo of a signage point, and its get_hash(): an injective encoding
VDFInfo == [challenge_hash : CcChallenges, output : {0, 1}]

HashVDF(vdf) == 10 + vdf.challenge_hash * 2 + vdf.output

\* a signage point of the slot with the given challenge hash
SignagePoint(challenge_hash, output) ==
    [cc_vdf |-> <<[challenge_hash |-> challenge_hash, output |-> output]>>,
     cc_proof |-> <<TRUE>>,
     rc_vdf |-> <<[challenge_hash |-> challenge_hash, output |-> output]>>,
     rc_proof |-> <<TRUE>>]

NewSignagePointStoresEverywhere(ring, cache, challenge_hash, index) ==
    Outcome([k \in 1 .. Len(ring) |->
                 [ring[k] EXCEPT !.sps = (index :> <<SignagePoint(challenge_hash, 0)>>)]],
            cache, Len(ring) > 0, "", IF Len(ring) > 0 THEN 245 ELSE 246)

\* lines 240-246: the loop unpacks each ring entry, a triple, into four names
NewSignagePoint(ring, cache, challenge_hash, index) ==
    IF ~(0 < index /\ index < NUM_CHECKPOINTS_PER_SLOT)
    THEN Outcome(ring, cache, FALSE, "AssertionError", 240)
    ELSE IF Len(ring) > 0 THEN Outcome(ring, cache, FALSE, "ValueError", 241)
         ELSE Outcome(ring, cache, FALSE, "", 246)

\* ------------------------------------------------ get_signage_point_by_index
\* SignagePoint(None, None, None, None)
EmptySignagePoint == [cc_vdf |-> <<>>, cc_proof |-> <<>>, rc_vdf |-> <<>>, rc_proof |-> <<>>]

\* what a query answers: ret is <<>> for None, <<v>> for the value v
Answer(ret, exc, line) == [ret |-> ret, exc |-> exc, line |-> line]

\* lines 265-270 for the table of the slot found
RECURSIVE FindByInfusion(_, _, _)
FindByInfusion(sps_at_index, last_rc_infusion, i) ==
    IF i > Len(sps_at_index) THEN Answer(<<>>, "", 270)
    ELSE IF sps_at_index[i].rc_vdf[1].challenge_hash = last_rc_infusion
         THEN Answer(<<sps_at_index[i]>>, "", 269)
         ELSE FindByInfusion(sps_at_index, last_rc_infusion, i + 1)

\* lines 261-271 when sub_slot.challenge_chain_hash is the hash of the slot's
\* challenge chain: the slots from the k-th on
RECURSIVE ScanSlots(_, _, _, _, _)
ScanSlots(ring, challenge_hash, index, last_rc_infusion, k) ==
    IF k > Len(ring) THEN Answer(<<>>, "", 271)
    ELSE IF HashCC(ring[k].eos.challenge_chain) = challenge_hash
         THEN IF index = 0 THEN Answer(<<EmptySignagePoint>>, "", 264)
              ELSE IF index \notin DOMAIN ring[k].sps THEN Answer(<<>>, "", 266)
                   ELSE FindByInfusion(ring[k].sps[index], last_rc_infusion, 1)
         ELSE ScanSlots(ring, challenge_hash, index, last_rc_infusion, k + 1)

\* get_signage_point_by_index(challenge_hash, index, last_rc_infusion): the
\* answers the call may give.  Line 262 reads sub_slot.challenge_chain_hash, an
\* attribute the store reads nowhere else (every other lookup calls
\* sub_slot.challenge_chain.get_hash()): on a ring that is not empty the read
\* either raises AttributeError or yields the challenge chain's hash.
GetSignagePointByIndex(ring, challenge_hash, index, last_rc_infusion) ==
    IF Len(ring) = 0 THEN {Answer(<<>>, "", 271)}
    ELSE {Answer(<<>>, "AttributeError", 262),
          ScanSlots(ring, challenge_hash, index, last_rc_infusion, 1)}

\* -------------------------------------------------- get_finished_sub_slots
\* the hash of the first sub-slot of the chain
FIRST_CC_CHALLENGE == 1

\* lines 335-336: None stands for the KeyError of sub_block_records[...]
RECURSIVE WalkToFirstInSubSlot(_, _)
WalkToFirstInSubSlot(curr, records) ==
    IF curr.first_in_sub_slot THEN <<curr>>
    ELSE IF curr.prev_hash \in DOMAIN records
         THEN WalkToFirstInSubSlot(records[curr.prev_hash], records)
         ELSE <<>>

\* lines 333-339: final_sub_slot_in_chain, <<>> where line 337 raises IndexError
FinalSubSlotInChain(curr) ==
    IF curr.finished_challenge_slot_hashes = <<>> THEN <<>>
    ELSE <<curr.finished_challenge_slot_hashes[Len(curr.finished_challenge_slot_hashes)]>>

\* get_finished_sub_slots(prev_sb, sub_block_records, pos_challenge_hash,
\* extra_sub_slot).  The loop of line 342 unpacks each ring entry, a triple,
\* into four names: on a ring that is not empty it raises ValueError; on an
\* empty ring both indices stay None and line 349 raises.  Lines 351-356 are
\* never reached.
GetFinishedSubSlots(ring, prev_sb, records, pos_challenge_hash, extra_sub_slot) ==
    LET walk == IF prev_sb = <<>> THEN <<>> ELSE WalkToFirstInSubSlot(prev_sb[1], records) IN
    IF prev_sb # <<>> /\ walk = <<>> THEN Answer(<<>>, "KeyError", 336)
    ELSE IF prev_sb # <<>> /\ FinalSubSlotInChain(walk[1]) = <<>>
         THEN Answer(<<>>, "IndexError", 337)
         ELSE IF Len(ring) > 0 THEN Answer(<<>>, "ValueError", 342)
              ELSE Answer(<<>>, "ValueError", 349)

\* ------------------------------------------- get_sub_slot, get_signage_point
\* lines 147-151: the first slot with the challenge hash, with its position
RECURSIVE GetSubSlot(_, _, _)
GetSubSlot(ring, challenge_hash, k) ==
    IF k > Len(ring) THEN Answer(<<>>, "", 151)
    ELSE IF HashCC(ring[k].eos.challenge_chain) = challenge_hash
         THEN Answer(<<<<ring[k].eos, k - 1, ring[k].total_iters>>>>, "", 150)
         ELSE GetSubSlot(ring, challenge_hash, k + 1)

\* lines 252-255 for one slot's table: the signage points of the table whose
\* challenge-chain VDF hashes to cc_signage_point
SignagePointsOf(sps, cc_signage_point) ==
    { sp \in UNION { {sps[i][j] : j \in 1 .. Len(sps[i])} : i \in DOMAIN sps } :
        HashVDF(sp.cc_vdf[1]) = cc_signage_point }

\* lines 248-256: the answers the call may give from the k-th slot on (the
\* order in which a table's items are visited picks among equal hashes)
RECURSIVE GetSignagePoint(_, _, _)
GetSignagePoint(ring, cc_signage_point, k) ==
    IF k > Len(ring) THEN {Answer(<<>>, "", 256)}
    ELSE IF HashCC(ring[k].eos.challenge_chain) = cc_signage_point
         THEN {Answer(<<EmptySignagePoint>>, "", 251)}
         ELSE IF SignagePointsOf(ring[k].sps, cc_signage_point) # {}
              THEN {Answer(<<sp>>, "", 255) :
                        sp \in SignagePointsOf(ring[k].sps, cc_signage_point)}
              ELSE GetSignagePoint(ring, cc_signage_point, k + 1)

LookupClearsSlots(ring, cache, a) == Outcome(<<>>, cache, a.ret, a.exc, a.line)

\* a lookup ends with answer a: none of lines 147-151, 248-271 and 320-356
\* writes to the store
Lookup(ring, cache, a) == Outcome(ring, cache, a.ret, a.exc, a.line)

\* ------------------------------------------------------------------ inputs
Eos(cc_challenge, cc_iters, rc_challenge, rc_iters, deficit, icc, cc_ok, rc_ok, icc_ok) ==
    [challenge_chain |->
         [challenge_hash |-> cc_challenge, number_of_iterations |-> cc_iters],
     reward_chain |->
         [challenge_hash |-> rc_challenge, number_of_iterations |-> rc_iters,
          deficit |-> deficit],
     infused_challenge_chain |-> icc,
     proofs |->
         [challenge_chain_slot_proof |-> cc_ok, reward_chain_slot_proof |-> rc_ok,
          infused_challenge_chain_slot_proof |-> icc_ok]]

Icc(challenge) == <<[challenge_hash |-> challenge]>>

\* the bundles handed to new_peak as peak_sub_slot and prev_sub_slot: a slot
\* with hash 1 and no infused chain, the same slot closed with a deficit below
\* the minimum and an infused chain, and a slot that chains from hash 1
SeedBundles ==
    { Eos(0, 1, 0, 0, MIN_SUB_BLOCKS_PER_CHALLENGE_BLOCK, <<>>, TRUE, TRUE, TRUE),
      Eos(0, 1, 0, 0, MIN_SUB_BLOCKS_PER_CHALLENGE_BLOCK - 1, Icc(0), TRUE, TRUE, TRUE),
      Eos(1, 1, 0, 0, MIN_SUB_BLOCKS_PER_CHALLENGE_BLOCK, <<>>, TRUE, TRUE, TRUE) }

\* the bundles handed to new_finished_sub_slot: the seeds, and bundles that
\* chain from hash 1, hash 3 or hash 4
Bundles ==
    SeedBundles
    \cup { Eos(c, 1, r, 0, MIN_SUB_BLOCKS_PER_CHALLENGE_BLOCK, <<>>, TRUE, TRUE, TRUE) :
             c \in {1, 3}, r \in {1, 2} }
    \cup { Eos(1, 0, 2, 0, MIN_SUB_BLOCKS_PER_CHALLENGE_BLOCK, <<>>, TRUE, TRUE, TRUE),
           Eos(4, 1, 1, 0, MIN_SUB_BLOCKS_PER_CHALLENGE_BLOCK, <<>>, TRUE, TRUE, TRUE) }
    \cup { Eos(1, 1, 1, 1, MIN_SUB_BLOCKS_PER_CHALLENGE_BLOCK, <<>>, TRUE, TRUE, TRUE) }
    \cup { Eos(1, 1, 1, 0, MIN_SUB_BLOCKS_PER_CHALLENGE_BLOCK, Icc(i), TRUE, TRUE, TRUE) :
             i \in IccChallenges }
    \cup { Eos(1, 1, 1, 0, MIN_SUB_BLOCKS_PER_CHALLENGE_BLOCK, <<>>, FALSE, TRUE, TRUE),
           Eos(1, 1, 1, 0, MIN_SUB_BLOCKS_PER_CHALLENGE_BLOCK, <<>>, TRUE, FALSE, TRUE),
           Eos(1, 1, 1, 0, MIN_SUB_BLOCKS_PER_CHALLENGE_BLOCK, Icc(1), TRUE, TRUE, FALSE) }

\* the number of bundles in future_eos_cache
NumDeferred(cache) == Len(cache[0]) + Len(cache[1]) + Len(cache[2])

\* ----------------------------------------------------------------- actions
\* the store takes the handler's outcome; `reorg` is new_peak's flag
Finish(op, reorg, r) ==
    /\ NumDeferred(r.future_eos_cache) <= MaxDeferred
    /\ finished_sub_slots' = r.finished_sub_slots
    /\ future_eos_cache' = r.future_eos_cache
    /\ last' = [op |-> op, reorg |-> reorg, line |-> r.line, exc |-> r.exc, ret |-> r.ret]
    /\ UNCHANGED tables

\* the store lines 50-59 are written to produce: every table is empty
Init ==
    /\ finished_sub_slots = <<>>
    /\ future_eos_cache = [k \in RcChallenges |-> <<>>]
    /\ last = [op |-> "create", reorg |-> FALSE, line |-> 59, exc |-> "", ret |-> FALSE]
    /\ second_finished_sub_slots = <<>>
    /\ seen_unfinished_blocks = {}
    /\ called = {}
    /\ future_ip_cache = [k \in {} |-> <<>>]
    /\ future_sb_cache = [k \in {} |-> <<>>]
    /\ unfinished_blocks = <<>>
    /\ candidate_blocks = <<>>
    /\ disconnected_blocks = <<>>

new_finished_sub_slot ==
    \E eos \in Bundles, peak \in Peaks :
        LET r == NewFinishedSubSlot(finished_sub_slots, future_eos_cache, eos,
                                    sub_block_records, peak)
        IN  Finish("new_finished_sub_slot", FALSE, r)

\* prev_sub_slot with prev_sub_slot_total_iters: both None, both given, or
\* the bundle given without its total (the assertion of line 311 fails)
PrevSubSlots ==
    {<<<<>>, <<>>>>}
    \cup { <<<<e>>, <<t>>>> : e \in SeedBundles, t \in 0 .. MaxSeedIters - 1 }
    \cup { <<<<e>>, <<>>>> : e \in {Eos(0, 1, 0, 0, MIN_SUB_BLOCKS_PER_CHALLENGE_BLOCK, <<>>,
                                       TRUE, TRUE, TRUE)} }

\* the arguments of new_peak besides reorg.  A call that raises at line 295
\* has read none of them, so one value of each stands for all.
NewPeakArgs(reorg) ==
    IF ~reorg /\ Len(finished_sub_slots) > 0
    THEN { <<CHOOSE p \in Peaks : TRUE, CHOOSE e \in SeedBundles : TRUE, 0, <<<<>>, <<>>>>>> }
    ELSE Peaks \X SeedBundles \X (0 .. MaxSeedIters) \X PrevSubSlots

new_peak ==
    \E reorg \in BOOLEAN :
        \E args \in NewPeakArgs(reorg) :
            LET peak == args[1]
                peak_sub_slot == args[2]
                total_iters == args[3]
                prev_sub_slot == args[4][1]
                prev_sub_slot_total_iters == args[4][2]
            IN  Finish("new_peak", reorg,
                       NewPeak(finished_sub_slots, future_eos_cache, peak, peak_sub_slot,
                               total_iters, prev_sub_slot, prev_sub_slot_total_iters,
                               reorg, sub_block_records))

new_signage_point ==
    \E challenge_hash \in CcChallenges, index \in 0 .. NUM_CHECKPOINTS_PER_SLOT :
        LET r == NewSignagePoint(finished_sub_slots, future_eos_cache, challenge_hash, index)
        IN  Finish("new_signage_point", FALSE, r)

clear_slots ==
    LET r == Outcome(<<>>, future_eos_cache, FALSE, "", 145)
    IN  Finish("clear_slots", FALSE, r)

get_signage_point_by_index ==
    \E challenge_hash \in CcChallenges, index \in 0 .. 1, last_rc_infusion \in {0} :
        \E a \in GetSignagePointByIndex(finished_sub_slots, challenge_hash, index,
                                        last_rc_infusion) :
            LET r == Lookup(finished_sub_slots, future_eos_cache, a)
            IN  Finish("get_signage_point_by_index", FALSE, r)

\* prev_sb: None, the two records of the validator's map, a first sub-block
\* without finished challenge slots, a first sub-block that finished slot 3,
\* and a sub-block behind record 2
PrevSbs ==
    {<<>>} \cup {<<sub_block_records[h]>> : h \in DOMAIN sub_block_records}
    \cup { <<[sub_block_records[2] EXCEPT !.finished_challenge_slot_hashes = <<>>]>>,
           <<[sub_block_records[2] EXCEPT !.finished_challenge_slot_hashes = <<1, 3>>]>>,
           <<[sub_block_records[1] EXCEPT !.prev_hash = 2]>> }

get_finished_sub_slots ==
    \E prev_sb \in PrevSbs, pos_challenge_hash \in CcChallenges, extra_sub_slot \in BOOLEAN :
        LET a == GetFinishedSubSlots(finished_sub_slots, prev_sb, sub_block_records,
                                     pos_challenge_hash, extra_sub_slot)
            r == Lookup(finished_sub_slots, future_eos_cache, a)
        IN  Finish("get_finished_sub_slots", FALSE, r)

get_sub_slot ==
    \E challenge_hash \in CcChallenges :
        LET a == GetSubSlot(finished_sub_slots, challenge_hash, 1)
            r == Lookup(finished_sub_slots, future_eos_cache, a)
        IN  Finish("get_sub_slot", FALSE, r)

get_signage_point ==
    \E cc_signage_point \in CcChallenges :
        \E a \in GetSignagePoint(finished_sub_slots, cc_signage_point, 1) :
            LET r == Lookup(finished_sub_slots, future_eos_cache, a)
            IN  Finish("get_signage_point", FALSE, r)

Next == new_finished_sub_slot \/ new_peak \/ new_signage_point \/ clear_slots

Spec == Init /\ [][Next]_vars

\* the store with its queries
NextQueries ==
    \/ Next
    \/ get_signage_point_by_index
    \/ get_finished_sub_slots
    \/ get_sub_slot
    \/ get_signage_point

SpecQueries == Init /\ [][NextQueries]_vars

\* ---------------------------------------------------- seen unfinished blocks
TempHeaderHashes == {1, 2}

SeenUnfinishedBlockWithoutInsert(seen, temp_header_hash) ==
    [seen |-> seen, ret |-> temp_header_hash \in seen,
     line |-> IF temp_header_hash \in seen THEN 107 ELSE 109]

\* lines 105-109: membership test that inserts on a miss
SeenUnfinishedBlock(seen, temp_header_hash) ==
    IF temp_header_hash \in seen
    THEN [seen |-> seen, ret |-> TRUE, line |-> 107]
    ELSE [seen |-> seen \cup {temp_header_hash}, ret |-> FALSE, line |-> 109]

\* a call on the tables besides the rings and future_eos_cache has ended
Done(op, line, ret) ==
    /\ last' = [op |-> op, reorg |-> FALSE, line |-> line, exc |-> "", ret |-> ret]
    /\ UNCHANGED <<finished_sub_slots, future_eos_cache, second_finished_sub_slots, blocks>>

seen_unfinished_block ==
    \E temp_header_hash \in TempHeaderHashes :
        LET r == SeenUnfinishedBlock(seen_unfinished_blocks, temp_header_hash) IN
        /\ seen_unfinished_blocks' = r.seen
        /\ called' = called \cup {temp_header_hash}
        /\ Done("seen_unfinished_block", r.line, r.ret)
        /\ UNCHANGED <<future_ip_cache, future_sb_cache>>

\* lines 111-112
clear_seen_unfinished_blocks ==
    /\ seen_unfinished_blocks' = {}
    /\ called' = {}
    /\ Done("clear_seen_unfinished_blocks", 112, FALSE)
    /\ UNCHANGED <<future_ip_cache, future_sb_cache>>

\* ------------------------------------------- future_ip_cache, future_sb_cache
\* the keys the two caches are filled under
FutureKeys == {1, 2}

\* timelord_protocol.NewInfusionPointVDF: the field the store reads, and an
\* output that tells two items of one key apart
NewInfusionPointVDF == [reward_chain_ip_vdf : [challenge_hash : FutureKeys, output : {0, 1}]]

\* FullBlock: the field the store reads
FullBlock ==
    [reward_chain_sub_block :
         [reward_chain_ip_vdf : [challenge_hash : FutureKeys, output : {0, 1}]]]

\* the number of items in a cache
RECURSIVE NumItems(_)
NumItems(cache) ==
    IF DOMAIN cache = {} THEN 0
    ELSE LET k == CHOOSE k \in DOMAIN cache : TRUE
         IN  Len(cache[k]) + NumItems([j \in DOMAIN cache \ {k} |-> cache[j]])

AddToFutureIpOverwrites(cache, infusion_point) ==
    LET ch == infusion_point.reward_chain_ip_vdf.challenge_hash IN
    [k \in DOMAIN cache \cup {ch} |-> IF k = ch THEN <<infusion_point>> ELSE cache[k]]

\* lines 126-130: the dict after add_to_future_ip(infusion_point)
AddToFutureIp(cache, infusion_point) ==
    LET ch == infusion_point.reward_chain_ip_vdf.challenge_hash
        with_key == IF ch \notin DOMAIN cache
                    THEN [k \in DOMAIN cache \cup {ch} |-> IF k = ch THEN <<>> ELSE cache[k]]
                    ELSE cache
    IN  [with_key EXCEPT ![ch] = Append(@, infusion_point)]

\* lines 132-133: future_ip_cache.get(rc_challenge_hash, [])
GetFutureIp(cache, rc_challenge_hash) ==
    IF rc_challenge_hash \in DOMAIN cache THEN cache[rc_challenge_hash] ELSE <<>>

\* lines 135-139: the dict after add_to_future_sb(sub_block)
AddToFutureSb(cache, sub_block) ==
    LET ch == sub_block.reward_chain_sub_block.reward_chain_ip_vdf.challenge_hash
        with_key == IF ch \notin DOMAIN cache
                    THEN [k \in DOMAIN cache \cup {ch} |-> IF k = ch THEN <<>> ELSE cache[k]]
                    ELSE cache
    IN  [with_key EXCEPT ![ch] = Append(@, sub_block)]

\* lines 141-142: future_sb_cache.get(rc_challenge_hash, [])
GetFutureSb(cache, rc_challenge_hash) ==
    IF rc_challenge_hash \in DOMAIN cache THEN cache[rc_challenge_hash] ELSE <<>>

add_to_future_ip ==
    \E infusion_point \in NewInfusionPointVDF :
        /\ NumItems(future_ip_cache) < MaxFutureItems
        /\ future_ip_cache' = AddToFutureIp(future_ip_cache, infusion_point)
        /\ Done("add_to_future_ip", 130, FALSE)
        /\ UNCHANGED <<seen_unfinished_blocks, called, future_sb_cache>>

get_future_ip ==
    \E rc_challenge_hash \in RcChallenges :
        /\ Done("get_future_ip", 133, GetFutureIp(future_ip_cache, rc_challenge_hash))
        /\ UNCHANGED <<seen_unfinished_blocks, called, future_ip_cache, future_sb_cache>>

add_to_future_sb ==
    \E sub_block \in FullBlock :
        /\ NumItems(future_sb_cache) < MaxFutureItems
        /\ future_sb_cache' = AddToFutureSb(future_sb_cache, sub_block)
        /\ Done("add_to_future_sb", 139, FALSE)
        /\ UNCHANGED <<seen_unfinished_blocks, called, future_ip_cache>>

get_future_sb ==
    \E rc_challenge_hash \in RcChallenges :
        /\ Done("get_future_sb", 142, GetFutureSb(future_sb_cache, rc_challenge_hash))
        /\ UNCHANGED <<seen_unfinished_blocks, called, future_ip_cache, future_sb_cache>>

NextTables ==
    \/ seen_unfinished_block
    \/ clear_seen_unfinished_blocks
    \/ add_to_future_ip
    \/ get_future_ip
    \/ add_to_future_sb
    \/ get_future_sb

SpecTables == Init /\ [][NextTables]_vars

\* --------------------------------------------------------------- two stores
\* two stores created side by side.  future_eos_cache is assigned in the class
\* body (line 39) and create (lines 51-59) gives the new store no dict of its
\* own: self.future_eos_cache is the one dict of the class, for every store.
Stores == {1, 2}

\* the slot ring of a store
RingOf(store) == IF store = 1 THEN finished_sub_slots ELSE second_finished_sub_slots

\* the future_eos_cache a store reads and writes
FutureEosCacheOf(store) == future_eos_cache

OpOf(store, op) == IF store = 1 THEN op ELSE "second." \o op

\* a store takes the outcome of one of its handlers
FinishOn(store, op, reorg, r) ==
    /\ NumDeferred(r.future_eos_cache) <= MaxDeferred
    /\ IF store = 1
       THEN finished_sub_slots' = r.finished_sub_slots
            /\ UNCHANGED second_finished_sub_slots
       ELSE second_finished_sub_slots' = r.finished_sub_slots
            /\ UNCHANGED finished_sub_slots
    /\ future_eos_cache' = r.future_eos_cache
    /\ last' = [op |-> OpOf(store, op), reorg |-> reorg, line |-> r.line, exc |-> r.exc,
                ret |-> r.ret]
    /\ UNCHANGED <<seen_unfinished_blocks, called, future_ip_cache, future_sb_cache, blocks>>

\* the peaks and bundles the two stores are given: peaks in the first slot
\* behind the seed, and bundles that chain from the seed
StorePeaks ==
    { p \in Peaks : p.deficit >= MIN_SUB_BLOCKS_PER_CHALLENGE_BLOCK /\ p.total_iters = 1 }

StoreBundles ==
    { Eos(1, 1, r, 0, MIN_SUB_BLOCKS_PER_CHALLENGE_BLOCK, <<>>, TRUE, TRUE, TRUE) : r \in {1, 2} }

StoreSeed == Eos(0, 1, 0, 0, MIN_SUB_BLOCKS_PER_CHALLENGE_BLOCK, <<>>, TRUE, TRUE, TRUE)

store_new_peak(store) ==
    \E peak \in StorePeaks, reorg \in BOOLEAN :
        LET r == NewPeak(RingOf(store), FutureEosCacheOf(store), peak, StoreSeed, 0,
                         <<>>, <<>>, reorg, sub_block_records)
        IN  FinishOn(store, "new_peak", reorg, r)

store_new_finished_sub_slot(store) ==
    \E eos \in StoreBundles, peak \in StorePeaks :
        LET r == NewFinishedSubSlot(RingOf(store), FutureEosCacheOf(store), eos,
                                    sub_block_records, peak)
        IN  FinishOn(store, "new_finished_sub_slot", FALSE, r)

NextStores ==
    \E store \in Stores : store_new_peak(store) \/ store_new_finished_sub_slot(store)

SpecStores == Init /\ [][NextStores]_vars

\* ------------------------- unfinished, candidate and disconnected blocks
MaxBlockHeight == 1

\* the keys of the three tables: reward-chain sub-block hashes, quality
\* strings, header hashes
BlockKeys == {1, 2}

Heights == 0 .. MaxBlockHeight

\* UnfinishedBlock: the hash of its reward_chain_sub_block and its height; a
\* record with named fields, which has no positional access
UnfinishedBlock == [reward_chain_sub_block : BlockKeys, height : Heights]

\* FullBlock as the disconnected table reads it: header_hash and height
DisconnectedBlock == [header_hash : BlockKeys, height : Heights]

\* table[key] = value on a dict: an old key keeps its place, a new key goes last
Put(table, key, value) ==
    IF \E i \in 1 .. Len(table) : table[i].key = key
    THEN [i \in 1 .. Len(table) |->
              IF table[i].key = key THEN [key |-> key, value |-> value] ELSE table[i]]
    ELSE Append(table, [key |-> key, value |-> value])

\* del table[key]
Del(table, key) == SelectSeq(table, LAMBDA e : e.key # key)

\* how a call on a block table ends
Pruned(table, exc, line) == [table |-> table, exc |-> exc, line |-> line]

\* lines 73-76: the keys are copied to a list before any is deleted
ClearDisconnectedBlocksBelow(table, height) ==
    Pruned(SelectSeq(table, LAMBDA e : ~(e.value.height < height)), "", 76)

\* lines 88-97: value[4] on the first item raises, an UnfinishedBlock has no
\* positional access; an empty table has no item to read
ClearCandidateBlocksBelow(table, height) ==
    IF Len(table) = 0 THEN Pruned(table, "", 93) ELSE Pruned(table, "TypeError", 91)

\* the first entry, in iteration order, below the height
FirstBelow(table, height) ==
    CHOOSE i \in 1 .. Len(table) :
        /\ table[i].value.height < height
        /\ \A j \in 1 .. i - 1 : ~(table[j].value.height < height)

\* lines 117-120: the dict is iterated while line 120 deletes from it; the
\* iterator raises on the step after the first deletion
ClearUnfinishedBlocksBelow(table, height) ==
    IF \A i \in 1 .. Len(table) : ~(table[i].value.height < height)
    THEN Pruned(table, "", 118)
    ELSE Pruned(Del(table, table[FirstBelow(table, height)].key), "RuntimeError", 118)

\* lines 122-124
RemoveUnfinishedBlock(table, partial_reward_hash) == Pruned(Del(table, partial_reward_hash), "", 124)

\* lines 50-59: cls() gives the object no finished_sub_slots (line 33 is an
\* annotation without a value), so clear_slots, line 145, raises before any
\* table is assigned; no store is returned
Create == [store |-> <<>>, exc |-> "AttributeError", line |-> 145]

\* a call on the block tables has ended
DoneBlocks(op, r) ==
    /\ last' = [op |-> op, reorg |-> FALSE, line |-> r.line, exc |-> r.exc, ret |-> FALSE]
    /\ UNCHANGED <<finished_sub_slots, future_eos_cache, second_finished_sub_slots,
                   seen_unfinished_blocks, called, future_ip_cache, future_sb_cache>>

\* lines 99-100
add_unfinished_block ==
    \E unfinished_block \in UnfinishedBlock :
        /\ unfinished_blocks' = Put(unfinished_blocks, unfinished_block.reward_chain_sub_block, unfinished_block)
        /\ DoneBlocks("add_unfinished_block", Pruned(<<>>, "", 100))
        /\ UNCHANGED <<candidate_blocks, disconnected_blocks>>

\* lines 78-83
add_candidate_block ==
    \E quality_string \in BlockKeys, unfinished_block \in UnfinishedBlock :
        /\ candidate_blocks' = Put(candidate_blocks, quality_string, unfinished_block)
        /\ DoneBlocks("add_candidate_block", Pruned(<<>>, "", 83))
        /\ UNCHANGED <<unfinished_blocks, disconnected_blocks>>

\* lines 61-62
add_disconnected_block ==
    \E block \in DisconnectedBlock :
        /\ disconnected_blocks' = Put(disconnected_blocks, block.header_hash, block)
        /\ DoneBlocks("add_disconnected_block", Pruned(<<>>, "", 62))
        /\ UNCHANGED <<unfinished_blocks, candidate_blocks>>

PruneHeights == 0 .. MaxBlockHeight + 1

clear_unfinished_blocks_below ==
    \E height \in PruneHeights :
        LET r == ClearUnfinishedBlocksBelow(unfinished_blocks, height) IN
        /\ unfinished_blocks' = r.table
        /\ DoneBlocks("clear_unfinished_blocks_below", r)
        /\ UNCHANGED <<candidate_blocks, disconnected_blocks>>

clear_candidate_blocks_below ==
    \E height \in PruneHeights :
        LET r == ClearCandidateBlocksBelow(candidate_blocks, height) IN
        /\ candidate_blocks' = r.table
        /\ DoneBlocks("clear_candidate_blocks_below", r)
        /\ UNCHANGED <<unfinished_blocks, disconnected_blocks>>

clear_disconnected_blocks_below ==
    \E height \in PruneHeights :
        LET r == ClearDisconnectedBlocksBelow(disconnected_blocks, height) IN
        /\ disconnected_blocks' = r.table
        /\ DoneBlocks("clear_disconnected_blocks_below", r)
        /\ UNCHANGED <<unfinished_blocks, candidate_blocks>>

remove_unfinished_block ==
    \E partial_reward_hash \in BlockKeys :
        LET r == RemoveUnfinishedBlock(unfinished_blocks, partial_reward_hash) IN
        /\ unfinished_blocks' = r.table
        /\ DoneBlocks("remove_unfinished_block", r)
        /\ UNCHANGED <<candidate_blocks, disconnected_blocks>>

\* a second FullNodeStore.create beside this store: it raises and leaves this
\* store as it is
create ==
    /\ DoneBlocks("create", Create)
    /\ UNCHANGED blocks

NextBlocks ==
    \/ add_unfinished_block
    \/ add_candidate_block
    \/ add_disconnected_block
    \/ clear_unfinished_blocks_below
    \/ clear_candidate_blocks_below
    \/ clear_disconnected_blocks_below
    \/ remove_unfinished_block
    \/ create

SpecBlocks == Init /\ [][NextBlocks]_vars

\* ------------------------------------------------------------------ claims
Ring == finished_sub_slots

\* C1: in every reachable state the ring's total_iters_at_end values are
\* strictly increasing from the first entry to the last.
C1_TotalItersStrictlyIncreasing ==
    \A k \in 1 .. Len(Ring) - 1 : Ring[k].total_iters < Ring[k + 1].total_iters

\* C2: in every reachable state the challenge hash of each ring entry's
\* challenge-chain end-of-slot VDF is the hash of the previous entry's
\* challenge chain.
C2_AdjacentSlotsChain ==
    \A k \in 1 .. Len(Ring) - 1 :
        Ring[k + 1].eos.challenge_chain.challenge_hash = HashCC(Ring[k].eos.challenge_chain)

\* C3: in every reachable state every ring entry but the first has
\* total_iters_at_end equal to the previous entry's plus its own challenge-chain
\* number_of_iterations.
C3_TotalItersAccumulate ==
    \A k \in 1 .. Len(Ring) - 1 :
        Ring[k + 1].total_iters
            = Ring[k].total_iters + Ring[k + 1].eos.challenge_chain.number_of_iterations

\* the ring new_peak is to seed: prev_sub_slot (if given) with its total, then
\* peak_sub_slot with total_iters
SeedRing(args) ==
    (IF args[4][1] # <<>>
     THEN <<[eos |-> args[4][1][1], sps |-> <<>>, total_iters |-> args[4][2][1]]>>
     ELSE <<>>)
    \o <<[eos |-> args[2], sps |-> <<>>, total_iters |-> args[3]]>>

\* new_peak called on the current store with reorg and args = <<peak,
\* peak_sub_slot, total_iters, <<prev_sub_slot, prev_sub_slot_total_iters>>>>
CallNewPeak(reorg, args) ==
    NewPeak(finished_sub_slots, future_eos_cache, args[1], args[2], args[3],
            args[4][1], args[4][2], reorg, sub_block_records)

AllNewPeakArgs == Peaks \X SeedBundles \X (0 .. MaxSeedIters) \X PrevSubSlots

\* C4 as stated: after new_peak returns with reorg=true, whatever the prior
\* ring and future_eos_cache, the ring is exactly prev_sub_slot (if given)
\* followed by peak_sub_slot.
C4_ReorgRingIsSeedOnly ==
    \A args \in AllNewPeakArgs :
        LET r == CallNewPeak(TRUE, args) IN
        r.exc = "" => r.finished_sub_slots = SeedRing(args)

\* C4 amended: after new_peak returns with reorg=true the ring is prev_sub_slot
\* (if given) followed by peak_sub_slot, followed by at most one more entry:
\* the deferred bundle the call returns, taken from
\* future_eos_cache[peak.reward_infusion_new_challenge]; when the call returns
\* none, the ring holds no other entry.
C4_ReorgRingIsSeedPlusReplayed ==
    \A args \in AllNewPeakArgs :
        LET r == CallNewPeak(TRUE, args) IN
        r.exc = "" =>
            \/ /\ r.ret = <<>>
               /\ r.finished_sub_slots = SeedRing(args)
            \/ /\ r.ret # <<>>
               /\ \E i \in 1 .. Len(future_eos_cache[args[1].reward_infusion_new_challenge]) :
                      future_eos_cache[args[1].reward_infusion_new_challenge][i] = r.ret[1]
               /\ Len(r.finished_sub_slots) = Len(SeedRing(args)) + 1
               /\ SubSeq(r.finished_sub_slots, 1, Len(SeedRing(args))) = SeedRing(args)
               /\ r.finished_sub_slots[Len(r.finished_sub_slots)].eos = r.ret[1]

\* C4 witness: a new_peak call with reorg=true has returned a replayed bundle,
\* which stands in the ring behind prev_sub_slot and peak_sub_slot
C4_Witness ==
    /\ last.op = "new_peak" /\ last.reorg /\ last.exc = "" /\ last.ret # <<>>
    /\ Len(finished_sub_slots) = 3
    /\ finished_sub_slots[3].eos = last.ret[1]

\* C5: new_peak called with reorg=false and a peak_sub_slot that is a ring
\* entry returns, and afterwards that slot's signage-point table keeps its
\* entries below sps_to_keep and is empty from sps_to_keep on.
C5_NonReorgTruncatesSignagePoints ==
    \A args \in AllNewPeakArgs, sps_to_keep \in 1 .. NUM_CHECKPOINTS_PER_SLOT :
        \A k \in 1 .. Len(Ring) :
            Ring[k].eos = args[2] =>
                LET r == CallNewPeak(FALSE, args) IN
                /\ r.exc = ""
                /\ \E j \in 1 .. Len(r.finished_sub_slots) :
                       /\ r.finished_sub_slots[j].eos = args[2]
                       /\ DOMAIN r.finished_sub_slots[j].sps
                              = {i \in DOMAIN Ring[k].sps : i < sps_to_keep}
                       /\ \A i \in DOMAIN r.finished_sub_slots[j].sps :
                              r.finished_sub_slots[j].sps[i] = Ring[k].sps[i]

\* C6: a bundle deferred under key K is replayed by the next new_peak whose
\* peak.reward_infusion_new_challenge is K: the call does not raise, and it
\* leaves the seeded ring either with that bundle appended or without it.
C6_DeferredReplayedWithoutRaising ==
    \A reorg \in BOOLEAN, args \in AllNewPeakArgs :
        LET deferred == future_eos_cache[args[1].reward_infusion_new_challenge]
            r == CallNewPeak(reorg, args)
        IN  deferred # <<>> =>
                /\ r.exc = ""
                /\ \/ r.finished_sub_slots = SeedRing(args)
                   \/ \E i \in 1 .. Len(deferred) :
                          r.finished_sub_slots
                              = Append(SeedRing(args),
                                       [eos |-> deferred[i], sps |-> <<>>,
                                        total_iters |->
                                            args[3] + deferred[i].challenge_chain.number_of_iterations])

\* new_finished_sub_slot(eos, sub_blocks, peak) called on the current store
CallNewFinishedSubSlot(eos, peak) ==
    NewFinishedSubSlot(finished_sub_slots, future_eos_cache, eos, sub_block_records, peak)

LastSlot == Ring[Len(Ring)]

AllProofsValid(eos) ==
    /\ eos.proofs.challenge_chain_slot_proof
    /\ eos.proofs.reward_chain_slot_proof
    /\ (eos.infused_challenge_chain = <<>> \/ eos.proofs.infused_challenge_chain_slot_proof)

\* C7: a bundle that chains from the ring's last slot, has valid proofs, with
\* the peak in its slot and a reward-chain challenge hash R other than
\* peak.reward_infusion_new_challenge, is answered false, leaves the ring
\* unchanged and is appended to future_eos_cache[R], every other key unchanged.
C7_DeferredWhenInfusionUnknown ==
    \A eos \in Bundles, peak \in Peaks :
        LET r == CallNewFinishedSubSlot(eos, peak)
            R == eos.reward_chain.challenge_hash
        IN  ( /\ Len(Ring) > 0
              /\ eos.challenge_chain.challenge_hash = HashCC(LastSlot.eos.challenge_chain)
              /\ AllProofsValid(eos)
              /\ peak.total_iters > LastSlot.total_iters
              /\ R # peak.reward_infusion_new_challenge )
            => /\ r.exc = "" /\ r.ret = FALSE
               /\ r.finished_sub_slots = Ring
               /\ r.future_eos_cache[R] = Append(future_eos_cache[R], eos)
               /\ \A k \in DOMAIN future_eos_cache \ {R} :
                      r.future_eos_cache[k] = future_eos_cache[k]
               /\ DOMAIN r.future_eos_cache = DOMAIN future_eos_cache

\* C7 witness: new_finished_sub_slot has just deferred a bundle
C7_Witness ==
    /\ last.op = "new_finished_sub_slot" /\ last.line = 193
    /\ NumDeferred(future_eos_cache) = 1
    /\ Len(Ring) > 0

\* C8: a bundle whose challenge-chain challenge hash is not the hash of the
\* ring's last slot's challenge chain is answered false with the ring and the
\* future cache unchanged, whatever the peak and the bundle's other fields.
C8_NonChainingRejected ==
    \A eos \in Bundles, peak \in Peaks :
        LET r == CallNewFinishedSubSlot(eos, peak) IN
        ( /\ Len(Ring) > 0
          /\ eos.challenge_chain.challenge_hash # HashCC(LastSlot.eos.challenge_chain) )
        => /\ r.exc = "" /\ r.ret = FALSE
           /\ r.finished_sub_slots = Ring
           /\ r.future_eos_cache = future_eos_cache

\* C8 witness: new_finished_sub_slot has just rejected a non-chaining bundle
C8_Witness ==
    /\ last.op = "new_finished_sub_slot" /\ last.line = 169 /\ last.ret = FALSE
    /\ Len(Ring) > 0

\* C9: a new_finished_sub_slot call that returns true has appended exactly the
\* entry (eos, empty table, last total_iters_at_end + the bundle's challenge-chain
\* number_of_iterations) at the end of the ring, every earlier entry in place.
C9_AcceptedAppendsAtEnd ==
    \A eos \in Bundles, peak \in Peaks :
        LET r == CallNewFinishedSubSlot(eos, peak) IN
        (r.exc = "" /\ r.ret) =>
            /\ Len(Ring) > 0
            /\ r.finished_sub_slots
                   = Ring \o <<[eos |-> eos, sps |-> <<>>,
                                total_iters |->
                                    LastSlot.total_iters
                                        + eos.challenge_chain.number_of_iterations]>>

\* C9 witness: two bundles accepted one after the other stand in the ring in
\* that order (only accepted bundles name a reward-chain challenge other than 0)
C9_Witness ==
    /\ last.op = "new_finished_sub_slot" /\ last.line = 226
    /\ Len(Ring) = 3
    /\ Ring[2].eos.reward_chain.challenge_hash # 0
    /\ Ring[3].eos.reward_chain.challenge_hash # 0
    /\ Ring[3].eos.challenge_chain.challenge_hash = HashCC(Ring[2].eos.challenge_chain)

\* C10: a bundle with an invalid challenge-chain, reward-chain or (when it has
\* an infused challenge chain) infused-challenge-chain slot proof is answered
\* false, with the ring and the future cache unchanged.
C10_InvalidProofRejected ==
    \A eos \in Bundles, peak \in Peaks :
        LET r == CallNewFinishedSubSlot(eos, peak) IN
        ( \/ ~eos.proofs.challenge_chain_slot_proof
          \/ ~eos.proofs.reward_chain_slot_proof
          \/ /\ eos.infused_challenge_chain # <<>>
             /\ ~eos.proofs.infused_challenge_chain_slot_proof )
        => /\ r.exc = "" /\ r.ret = FALSE
           /\ r.finished_sub_slots = Ring
           /\ r.future_eos_cache = future_eos_cache

\* C10 witness: a chaining bundle has just been rejected for the proof of its
\* infused challenge chain
C10_Witness ==
    /\ last.op = "new_finished_sub_slot" /\ last.line = 181 /\ last.ret = FALSE
    /\ Len(Ring) > 0

\* C11: while the ring is empty, new_finished_sub_slot answers false for every
\* bundle and every peak, and leaves the ring empty and the future cache as it
\* was.
C11_EmptyRingRejects ==
    Len(Ring) = 0 =>
        \A eos \in Bundles, peak \in Peaks :
            LET r == CallNewFinishedSubSlot(eos, peak) IN
            /\ r.exc = "" /\ r.ret = FALSE
            /\ r.finished_sub_slots = <<>>
            /\ r.future_eos_cache = future_eos_cache

\* C11 witness: new_finished_sub_slot has just been refused on an empty ring
\* while a bundle waits in the future cache
C11_Witness ==
    /\ last.op = "new_finished_sub_slot" /\ last.line = 162 /\ last.ret = FALSE
    /\ Len(Ring) = 0
    /\ NumDeferred(future_eos_cache) > 0

\* the ring has an entry whose challenge chain hashes to challenge_hash
HasSlot(challenge_hash) ==
    \E k \in 1 .. Len(Ring) : HashCC(Ring[k].eos.challenge_chain) = challenge_hash

\* C12: new_signage_point with 0 < index < NUM_CHECKPOINTS_PER_SLOT answers
\* false and changes nothing when no ring entry has the challenge hash; when
\* one has, it answers true, that entry's table holds a signage point at the
\* index, and every other entry is as it was.
C12_SignagePointStoredAtIndex ==
    \A challenge_hash \in CcChallenges, index \in 1 .. NUM_CHECKPOINTS_PER_SLOT - 1 :
        LET r == NewSignagePoint(Ring, future_eos_cache, challenge_hash, index) IN
        /\ r.exc = ""
        /\ r.future_eos_cache = future_eos_cache
        /\ Len(r.finished_sub_slots) = Len(Ring)
        /\ IF ~HasSlot(challenge_hash)
           THEN r.ret = FALSE /\ r.finished_sub_slots = Ring
           ELSE /\ r.ret = TRUE
                /\ \A k \in 1 .. Len(Ring) :
                       IF HashCC(Ring[k].eos.challenge_chain) = challenge_hash
                       THEN \/ index \in DOMAIN r.finished_sub_slots[k].sps
                            \/ r.finished_sub_slots[k] = Ring[k]
                       ELSE r.finished_sub_slots[k] = Ring[k]

\* C18: once new_peak has replayed the bundles deferred under its peak's
\* reward_infusion_new_challenge, the first of them (which every replay
\* retries) is no longer in future_eos_cache under that key.
C18_ReplayedLeavesCache ==
    \A args \in AllNewPeakArgs :
        LET K == args[1].reward_infusion_new_challenge
            deferred == future_eos_cache[K]
            r == CallNewPeak(TRUE, args)
        IN  (deferred # <<>> /\ r.exc = "") =>
                \A i \in 1 .. Len(r.future_eos_cache[K]) :
                    r.future_eos_cache[K][i] # deferred[1]

\* C20: with the peak in the new slot and the bundle's reward-chain challenge
\* equal to peak.reward_infusion_new_challenge, a bundle that chains and has
\* valid proofs is accepted only if peak.total_iters plus its reward-chain
\* number_of_iterations equals the last total_iters_at_end plus its
\* challenge-chain number_of_iterations; otherwise the call answers false with
\* the ring and the future cache unchanged.
C20_ItersMismatchRejected ==
    \A eos \in Bundles, peak \in Peaks :
        LET r == CallNewFinishedSubSlot(eos, peak) IN
        ( /\ Len(Ring) > 0
          /\ eos.challenge_chain.challenge_hash = HashCC(LastSlot.eos.challenge_chain)
          /\ AllProofsValid(eos)
          /\ peak.total_iters > LastSlot.total_iters
          /\ eos.reward_chain.challenge_hash = peak.reward_infusion_new_challenge )
        => /\ (r.exc = "" /\ r.ret) =>
                  peak.total_iters + eos.reward_chain.number_of_iterations
                      = LastSlot.total_iters + eos.challenge_chain.number_of_iterations
           /\ peak.total_iters + eos.reward_chain.number_of_iterations
                  # LastSlot.total_iters + eos.challenge_chain.number_of_iterations
              => /\ r.exc = "" /\ r.ret = FALSE
                 /\ r.finished_sub_slots = Ring
                 /\ r.future_eos_cache = future_eos_cache

\* C20 witness: new_finished_sub_slot has just refused a bundle for its
\* iteration counts
C20_Witness ==
    /\ last.op = "new_finished_sub_slot" /\ last.line = 195 /\ last.ret = FALSE
    /\ Len(Ring) > 0

\* C13: get_signage_point_by_index(H, 0, r) answers the empty signage point
\* for every challenge hash H and every last_rc_infusion r.
C13_IndexZeroIsSentinel ==
    \A H \in CcChallenges, r \in RcChallenges :
        \A a \in GetSignagePointByIndex(Ring, H, 0, r) :
            a.exc = "" /\ a.ret = <<EmptySignagePoint>>

\* the last ring position whose challenge chain hashes to challenge_hash (the
\* loop of lines 342-346 keeps the last match), 0 when there is none
IndexOf(challenge_hash) ==
    LET matches == {k \in 1 .. Len(Ring) : HashCC(Ring[k].eos.challenge_chain) = challenge_hash}
    IN  IF matches = {} THEN 0 ELSE CHOOSE k \in matches : \A j \in matches : j <= k

\* the inputs of get_finished_sub_slots from which lines 333-339 derive the
\* last finished challenge slot hash, with that hash
DerivableQueries ==
    { q \in PrevSbs \X CcChallenges \X BOOLEAN :
        q[1] # <<>> =>
            /\ WalkToFirstInSubSlot(q[1][1], sub_block_records) # <<>>
            /\ FinalSubSlotInChain(WalkToFirstInSubSlot(q[1][1], sub_block_records)[1]) # <<>> }

FinalOf(q) ==
    IF q[1] = <<>> THEN FIRST_CC_CHALLENGE
    ELSE FinalSubSlotInChain(WalkToFirstInSubSlot(q[1][1], sub_block_records)[1])[1]

\* C14: when the ring has a slot at position f for the last finished challenge
\* slot hash derived from prev_sb and a slot at position p for
\* pos_challenge_hash, get_finished_sub_slots returns the bundles at ring
\* positions f+1..p, and f+1..p+1 with extra_sub_slot.
C14_FinishedSubSlotsSlice ==
    \A q \in DerivableQueries :
        LET f == IndexOf(FinalOf(q))
            p == IndexOf(q[2])
            upto == IF q[3] THEN p + 1 ELSE p
            a == GetFinishedSubSlots(Ring, q[1], sub_block_records, q[2], q[3])
        IN  (f > 0 /\ p > 0 /\ upto <= Len(Ring)) =>
                /\ a.exc = ""
                /\ a.ret = <<[k \in 1 .. (IF upto > f THEN upto - f ELSE 0) |-> Ring[f + k].eos]>>

\* C15: get_finished_sub_slots raises exactly when the ring has no slot for
\* pos_challenge_hash or no slot for the last finished challenge slot hash
\* derived from prev_sb.
C15_RaisesExactlyWhenEndpointMissing ==
    \A q \in DerivableQueries :
        LET a == GetFinishedSubSlots(Ring, q[1], sub_block_records, q[2], q[3]) IN
        (a.exc # "") <=> (IndexOf(FinalOf(q)) = 0 \/ IndexOf(q[2]) = 0)

\* C16: seen_unfinished_block(h) answers true exactly when it was already
\* called with h since creation or the last clear_seen_unfinished_blocks.
C16_SeenOnSecondCall ==
    \A h \in TempHeaderHashes :
        SeenUnfinishedBlock(seen_unfinished_blocks, h).ret = (h \in called)

\* C16 witness: a second call with one hash has answered true, while another
\* hash has not been seen since the last clear
C16_Witness ==
    /\ last.op = "seen_unfinished_block" /\ last.line = 107 /\ last.ret = TRUE
    /\ called # {} /\ called # TempHeaderHashes

\* the other keys of a cache keep their lists
SameElsewhere(old, new, ch) ==
    /\ DOMAIN new = DOMAIN old \cup {ch}
    /\ \A k \in DOMAIN old \ {ch} : new[k] = old[k]

\* C19: add_to_future_ip and add_to_future_sb append the item at the end of
\* the list of the item's reward-chain infusion-point challenge hash and keep
\* every earlier entry of that key and every other key; get_future_ip and
\* get_future_sb return the list of the key (empty for an unknown key) and
\* leave both caches as they were.
C19_FutureCachesAppendOnly ==
    [][ /\ last'.op = "add_to_future_ip" =>
              /\ \E item \in NewInfusionPointVDF :
                     LET ch == item.reward_chain_ip_vdf.challenge_hash IN
                     /\ SameElsewhere(future_ip_cache, future_ip_cache', ch)
                     /\ future_ip_cache'[ch] = Append(GetFutureIp(future_ip_cache, ch), item)
              /\ future_sb_cache' = future_sb_cache
        /\ last'.op = "add_to_future_sb" =>
              /\ \E item \in FullBlock :
                     LET ch == item.reward_chain_sub_block.reward_chain_ip_vdf.challenge_hash IN
                     /\ SameElsewhere(future_sb_cache, future_sb_cache', ch)
                     /\ future_sb_cache'[ch] = Append(GetFutureSb(future_sb_cache, ch), item)
              /\ future_ip_cache' = future_ip_cache
        /\ last'.op = "get_future_ip" =>
              /\ \E k \in RcChallenges :
                     last'.ret = IF k \in DOMAIN future_ip_cache
                                 THEN future_ip_cache[k] ELSE <<>>
              /\ future_ip_cache' = future_ip_cache /\ future_sb_cache' = future_sb_cache
        /\ last'.op = "get_future_sb" =>
              /\ \E k \in RcChallenges :
                     last'.ret = IF k \in DOMAIN future_sb_cache
                                 THEN future_sb_cache[k] ELSE <<>>
              /\ future_ip_cache' = future_ip_cache /\ future_sb_cache' = future_sb_cache
      ]_vars

\* C19 witness: add_to_future_ip has just appended a second item to a key
\* while another key holds an item
C19_Witness ==
    /\ last.op = "add_to_future_ip"
    /\ \E k \in DOMAIN future_ip_cache : Len(future_ip_cache[k]) = 2
    /\ future_sb_cache # <<>>

\* the last call was made on this store
CalledOn(store) ==
    last.op \in {OpOf(store, "new_peak"), OpOf(store, "new_finished_sub_slot")}

\* C17: with two stores side by side, a call on one store changes nothing in
\* the future_eos_cache the other store sees, and the other store's new_peak
\* replays no bundle that was deferred into the first.
C17_FutureCachesPerStore ==
    [][ \A store \in Stores :
            CalledOn(store)' =>
                \A other \in Stores \ {store} :
                    FutureEosCacheOf(other)' = FutureEosCacheOf(other)
      ]_vars

\* C21: with the peak not inside the new slot, a bundle that chains and has
\* valid proofs is accepted only if its reward-chain challenge is the hash of
\* the last slot's reward chain and, when the last slot's deficit is below the
\* minimum, its infused-challenge-chain challenge is the hash of the last
\* slot's infused challenge chain; otherwise the call answers false, defers
\* nothing and leaves the ring and the future cache unchanged.
C21_EmptySlotMustChain ==
    \A eos \in Bundles, peak \in Peaks :
        LET r == CallNewFinishedSubSlot(eos, peak) IN
        ( /\ Len(Ring) > 0
          /\ eos.challenge_chain.challenge_hash = HashCC(LastSlot.eos.challenge_chain)
          /\ AllProofsValid(eos)
          /\ peak.total_iters <= LastSlot.total_iters )
        => LET rc_chains == eos.reward_chain.challenge_hash
                                = HashRC(LastSlot.eos.reward_chain)
               icc_needed == LastSlot.eos.reward_chain.deficit
                                 < MIN_SUB_BLOCKS_PER_CHALLENGE_BLOCK
               icc_chains == /\ eos.infused_challenge_chain # <<>>
                             /\ LastSlot.eos.infused_challenge_chain # <<>>
                             /\ eos.infused_challenge_chain[1].challenge_hash
                                    = HashICC(LastSlot.eos.infused_challenge_chain[1])
           IN  /\ r.exc = ""
               /\ r.ret => (rc_chains /\ (icc_needed => icc_chains))
               /\ ~(rc_chains /\ (icc_needed => icc_chains)) =>
                      /\ r.ret = FALSE
                      /\ r.finished_sub_slots = Ring
                      /\ r.future_eos_cache = future_eos_cache

\* the nearest ancestor of the peak, the peak included, that is first in its
\* sub-slot or a challenge sub-block, and the start hash expected of it
\* (<<>> where there is none)
ChallengeStart(peak) == WalkBack(peak, sub_block_records)

ExpectedIccStart(peak) ==
    IF ChallengeStart(peak) = <<>> THEN <<>>
    ELSE LET curr == ChallengeStart(peak)[1] IN
         IF curr.is_challenge_sub_block THEN <<curr.challenge_block_info_hash>>
         ELSE IF curr.finished_infused_challenge_slot_hashes = <<>> THEN <<>>
              ELSE <<curr.finished_infused_challenge_slot_hashes[
                         Len(curr.finished_infused_challenge_slot_hashes)]>>

\* C22: with the peak in the new slot and peak.deficit below the minimum, a
\* bundle is accepted only if its infused-challenge-chain challenge is the
\* start hash expected of the peak's challenge start; a bundle without infused
\* challenge chain, or with another hash, is answered false, without raising,
\* and the ring is left unchanged.
C22_InfusedStartMustMatch ==
    \A eos \in Bundles, peak \in Peaks :
        LET r == CallNewFinishedSubSlot(eos, peak) IN
        ( /\ Len(Ring) > 0
          /\ eos.challenge_chain.challenge_hash = HashCC(LastSlot.eos.challenge_chain)
          /\ AllProofsValid(eos)
          /\ peak.total_iters > LastSlot.total_iters
          /\ eos.reward_chain.challenge_hash = peak.reward_infusion_new_challenge
          /\ peak.total_iters + eos.reward_chain.number_of_iterations
                 = LastSlot.total_iters + eos.challenge_chain.number_of_iterations
          /\ peak.deficit < MIN_SUB_BLOCKS_PER_CHALLENGE_BLOCK
          /\ ExpectedIccStart(peak) # <<>> )
        => LET matches == /\ eos.infused_challenge_chain # <<>>
                          /\ eos.infused_challenge_chain[1].challenge_hash
                                 = ExpectedIccStart(peak)[1]
           IN  /\ r.exc = ""
               /\ r.ret = matches
               /\ ~matches => r.finished_sub_slots = Ring

\* C26, the store as it is: a new_peak call that returns a bundle has taken it
\* from future_eos_cache[peak.reward_infusion_new_challenge] and appended it as the
\* entry directly behind peak_sub_slot; a call that returns none has appended
\* no deferred bundle; no call appends more than one.
C26_ReturnsTheReplayedBundle ==
    \A reorg \in BOOLEAN, args \in AllNewPeakArgs :
        LET deferred == future_eos_cache[args[1].reward_infusion_new_challenge]
            r == CallNewPeak(reorg, args)
            n == Len(SeedRing(args))
        IN  r.exc = "" =>
                /\ Len(r.finished_sub_slots) \in {n, n + 1}
                /\ SubSeq(r.finished_sub_slots, 1, n) = SeedRing(args)
                /\ (r.ret = <<>>) <=> (Len(r.finished_sub_slots) = n)
                /\ r.ret # <<>> =>
                       /\ \E i \in 1 .. Len(deferred) : deferred[i] = r.ret[1]
                       /\ r.finished_sub_slots[n + 1]
                              = [eos |-> r.ret[1], sps |-> <<>>,
                                 total_iters |->
                                     args[3] + r.ret[1].challenge_chain.number_of_iterations]

\* new_peak calls without prev_sub_slot
NewPeakArgsWithoutPrev == Peaks \X SeedBundles \X (0 .. MaxSeedIters) \X {<<<<>>, <<>>>>}

\* C26 with one more bundle deferred: in the store as a deferring
\* new_finished_sub_slot call would leave it, a new_peak call that returns
\* appends the bundle it returns, the first the replay accepts, and no other.
C26_ReplayStopsAtFirstSuccess ==
    \A eos \in Bundles, peak \in Peaks :
        LET d == CallNewFinishedSubSlot(eos, peak) IN
        d.line = 193 =>
            \A args \in NewPeakArgsWithoutPrev :
                LET deferred == d.future_eos_cache[args[1].reward_infusion_new_challenge]
                    r == NewPeak(d.finished_sub_slots, d.future_eos_cache, args[1], args[2],
                                 args[3], args[4][1], args[4][2], TRUE, sub_block_records)
                IN  r.exc = "" =>
                        /\ Len(r.finished_sub_slots) \in {1, 2}
                        /\ r.finished_sub_slots[1] = SeedRing(args)[1]
                        /\ (r.ret = <<>>) <=> (Len(r.finished_sub_slots) = 1)
                        /\ r.ret # <<>> =>
                               /\ \E i \in 1 .. Len(deferred) : deferred[i] = r.ret[1]
                               /\ r.finished_sub_slots[2].eos = r.ret[1]

\* C26: new_peak returns a bundle exactly when it has appended that bundle,
\* taken from future_eos_cache[peak.reward_infusion_new_challenge], directly
\* behind peak_sub_slot, and it appends at most one, with one or with two
\* bundles deferred.
C26_NewPeakReturnsWhatItAppended ==
    C26_ReturnsTheReplayedBundle /\ C26_ReplayStopsAtFirstSuccess

\* C26 witness: new_peak, given no prev_sub_slot, has returned the bundle it
\* appended behind peak_sub_slot
C26_Witness ==
    /\ last.op = "new_peak" /\ last.line = 317 /\ last.exc = "" /\ last.ret # <<>>
    /\ Len(Ring) = 2
    /\ Ring[2].eos = last.ret[1]
    /\ \E i \in 1 .. Len(future_eos_cache[Ring[2].eos.reward_chain.challenge_hash]) :
           future_eos_cache[Ring[2].eos.reward_chain.challenge_hash][i] = last.ret[1]

\* C27: in every reachable state the ring entries have pairwise distinct
\* challenge-chain hashes.
C27_SlotsDistinct ==
    \A j, k \in 1 .. Len(Ring) :
        j # k => HashCC(Ring[j].eos.challenge_chain) # HashCC(Ring[k].eos.challenge_chain)

\* the signage points held by a ring entry's table
StoredSignagePoints(entry) ==
    UNION { {entry.sps[i][j] : j \in 1 .. Len(entry.sps[i])} : i \in DOMAIN entry.sps }

\* the tables of a ring hold signage points only at indices 1 ..
\* NUM_CHECKPOINTS_PER_SLOT - 1, each in one entry only, whose challenge-chain
\* hash is the challenge hash the point came with
SignagePointsInPlace(ring) ==
    \A k \in 1 .. Len(ring) :
        /\ DOMAIN ring[k].sps \subseteq 1 .. NUM_CHECKPOINTS_PER_SLOT - 1
        /\ \A sp \in StoredSignagePoints(ring[k]) :
               /\ sp.cc_vdf[1].challenge_hash = HashCC(ring[k].eos.challenge_chain)
               /\ \A j \in 1 .. Len(ring) : j # k => sp \notin StoredSignagePoints(ring[j])

LookupOps == {"get_sub_slot", "get_signage_point", "get_signage_point_by_index", "get_finished_sub_slots"}

\* C28: a step that is a call of get_sub_slot, get_signage_point,
\* get_signage_point_by_index or get_finished_sub_slots, whether it returns a
\* value, returns none or raises, leaves the ring with its signage-point
\* tables, the block tables, the seen set and the future caches unchanged.
C28_LookupsChangeNothing ==
    [][last'.op \in LookupOps => UNCHANGED <<finished_sub_slots, future_eos_cache, tables>>]_vars

\* C28 witness: a lookup has returned a value from a ring of two or more entries
C28_Witness ==
    /\ last.op \in {"get_sub_slot", "get_signage_point"}
    /\ last.exc = "" /\ last.ret # <<>>
    /\ Len(Ring) >= 2

\* the entries of a table that are not below the height, in their order
NotBelow(table, height) == SelectSeq(table, LAMBDA e : ~(e.value.height < height))

\* C25: each of clear_unfinished_blocks_below, clear_candidate_blocks_below and
\* clear_disconnected_blocks_below, called with any height on any reachable
\* table, completes without error and leaves in its table exactly the entries
\* whose height is not below the height given.
C25_PruneRemovesExactlyBelow ==
    \A height \in PruneHeights :
        /\ ClearUnfinishedBlocksBelow(unfinished_blocks, height) =
               Pruned(NotBelow(unfinished_blocks, height), "", 118)
        /\ ClearCandidateBlocksBelow(candidate_blocks, height).exc = ""
        /\ ClearCandidateBlocksBelow(candidate_blocks, height).table =
               NotBelow(candidate_blocks, height)
        /\ ClearDisconnectedBlocksBelow(disconnected_blocks, height) =
               Pruned(NotBelow(disconnected_blocks, height), "", 76)

\* C29: FullNodeStore.create returns a store, without raising, whose ring,
\* block tables, seen set and future caches are empty.
C29_CreateYieldsEmptyStore ==
    /\ Create.exc = ""
    /\ Create.store # <<>>
    /\ last.op = "create" =>
           /\ last.exc = ""
           /\ finished_sub_slots = <<>>
           /\ blocks = <<<<>>, <<>>, <<>>>>
           /\ seen_unfinished_blocks = {}

====
